---- MODULE Spec2Model ----
(***************************************************************************)
(* Streaming tool-dispatch loop of the task agent: the tool-call scanner   *)
(* (tool_processor.py), the conversation log (prompt_manager.py) and the   *)
(* iteration loop of TaskAgent (agent.py).                                 *)
(*                                                                         *)
(* Text is a sequence of one-character strings.  Offsets are 0-based as in *)
(* Python: the character at Python offset p is text[p + 1].                *)
(***************************************************************************)
EXTENDS Integers, Sequences, FiniteSets, TLC

(***************************************************************************)
(* Bounds of the model                                                     *)
(***************************************************************************)
\* largest iteration cap an agent is constructed with
MaxIterations == 2
\* fragments the main model yields over the lifetime of one agent
MaxFragments == 3
\* calls of run() on one agent
MaxRuns == 2
\* fragments appended to the growing buffer of the scanner harness
MaxAppends == 3

\* entries of the log up to which the prompt-manager harness adds user messages
MaxLog == 5

(***************************************************************************)
(* Characters and Python string primitives                                 *)
(***************************************************************************)
UpperCase ==
  <<"A","B","C","D","E","F","G","H","I","J","K","L","M",
    "N","O","P","Q","R","S","T","U","V","W","X","Y","Z">>

LowerCase ==
  <<"a","b","c","d","e","f","g","h","i","j","k","l","m",
    "n","o","p","q","r","s","t","u","v","w","x","y","z">>

Digits == {"0","1","2","3","4","5","6","7","8","9"}

\* characters matched by \w in the tool pattern
WordChars ==
  {UpperCase[i] : i \in 1..26} \cup {LowerCase[i] : i \in 1..26}
    \cup Digits \cup {"_"}

\* characters removed by str.strip()
WhitespaceChars == {" ", "\n", "\t", "\r"}

\* str.lower() on one character
LowerChar(c) ==
  IF \E i \in 1..26 : UpperCase[i] = c
    THEN LowerCase[CHOOSE i \in 1..26 : UpperCase[i] = c]
    ELSE c

\* variant of Lower that leaves the case alone
KeepCase(s) == s

\* str.lower()
Lower(s) == [i \in 1..Len(s) |-> LowerChar(s[i])]

\* s[from:] with a 0-based offset
SliceFrom(s, from) == SubSeq(s, from + 1, Len(s))

\* does pat occur in s at 0-based offset p
OccursAt(s, pat, p) ==
  /\ p >= 0
  /\ p + Len(pat) <= Len(s)
  /\ \A k \in 1..Len(pat) : s[p + k] = pat[k]

\* pat in s
Contains(s, pat) == \E p \in 0..Len(s) : OccursAt(s, pat, p)

\* s.find(pat): lowest offset of an occurrence, -1 when there is none
Find(s, pat) ==
  IF Contains(s, pat)
    THEN CHOOSE p \in 0..Len(s) :
           /\ OccursAt(s, pat, p)
           /\ \A q \in 0..(p - 1) : ~OccursAt(s, pat, q)
    ELSE -1

RECURSIVE LStrip(_)
LStrip(s) ==
  IF s # <<>> /\ s[1] \in WhitespaceChars THEN LStrip(Tail(s)) ELSE s

RECURSIVE RStrip(_)
RStrip(s) ==
  IF s # <<>> /\ s[Len(s)] \in WhitespaceChars
    THEN RStrip(SubSeq(s, 1, Len(s) - 1))
    ELSE s

\* str.strip()
Strip(s) == RStrip(LStrip(s))

(***************************************************************************)
(* Program constants (prompts.py)                                          *)
(***************************************************************************)
TASK_COMPLETE_TAG ==
  <<"[","t","a","s","k","_","c","o","m","p","l","e","t","e","]">>

TASK_COMPLETE_DEFAULT_RESULT ==
  <<"T","a","s","k"," ","c","o","m","p","l","e","t","e","d"," ",
    "s","u","c","c","e","s","s","f","u","l","l","y">>

MAX_ITERATIONS_MESSAGE ==
  <<"\n","M","a","x","i","m","u","m"," ","i","t","e","r","a","t","i","o","n","s",
    " ","r","e","a","c","h","e","d">>

TOOL_OUTPUT_PREFIX == <<" ","o","u","t","p","u","t",":","\n">>

(***************************************************************************)
(* Values shared by the components                                         *)
(***************************************************************************)
\* Python's None and False, kept apart from every text (a text holds only
\* one-character strings)
None == <<"None">>

False == <<"False">>

\* the Optional[ToolCall] that is None
NoCall == [id |-> None]

DELIM == <<"|","|","|">>

SHELL == <<"s","h","e","l","l">>

RUN_PYTHON == <<"r","u","n","_","p","y","t","h","o","n">>

\* tools.py AVAILABLE_TOOLS: the names the registry maps to a runner
AVAILABLE_TOOLS == {SHELL, RUN_PYTHON}

(***************************************************************************)
(* Tool-call scanner (tool_processor.py)                                   *)
(***************************************************************************)
\* offset just past the run of \w characters that starts at offset p
WordRunEnd(text, p) ==
  CHOOSE q \in p..Len(text) :
    /\ \A r \in p..(q - 1) : text[r + 1] \in WordChars
    /\ (q = Len(text) \/ text[q + 1] \notin WordChars)

\* offset of the first ||| at or after offset c (lazy .*? in the pattern)
FirstDelim(text, c) ==
  CHOOSE k \in c..Len(text) :
    /\ OccursAt(text, DELIM, k)
    /\ \A j \in c..(k - 1) : ~OccursAt(text, DELIM, j)

\* tool_pattern \[(\w+)\]\|\|\|(.*?)\|\|\| anchored at offset p (re.DOTALL)
MatchAt(text, p) ==
  IF p + 1 > Len(text) \/ text[p + 1] # "["
    THEN [ok |-> FALSE]
    ELSE
      LET q == WordRunEnd(text, p + 1)
          c == q + 1 + Len(DELIM)
      IN  IF /\ q > p + 1
             /\ q < Len(text)
             /\ text[q + 1] = "]"
             /\ OccursAt(text, DELIM, q + 1)
             /\ \E k \in c..Len(text) : OccursAt(text, DELIM, k)
            THEN LET k == FirstDelim(text, c)
                 IN  [ok |-> TRUE,
                      start |-> p,
                      end |-> k + Len(DELIM),
                      name |-> SubSeq(text, p + 2, q),
                      group2 |-> SubSeq(text, c + 1, k)]
            ELSE [ok |-> FALSE]

\* re.finditer: leftmost non-overlapping matches, scanning from offset p
RECURSIVE FindIterFrom(_, _)
FindIterFrom(text, p) ==
  IF p >= Len(text)
    THEN <<>>
    ELSE LET m == MatchAt(text, p)
         IN  IF m.ok
               THEN <<m>> \o FindIterFrom(text, m.end)
               ELSE FindIterFrom(text, p + 1)

FindIter(text) == FindIterFrom(text, 0)

\* f"tool_{start_pos}"
ToolId(start_pos) == <<"tool_", start_pos>>

\* ToolCall(id, name, content, start_pos, end_pos) with the dataclass defaults
ToolCall(m) ==
  [id |-> ToolId(m.start),
   name |-> m.name,
   content |-> Strip(m.group2),
   start_pos |-> m.start,
   end_pos |-> m.end,
   output |-> None,
   executed |-> FALSE]

\* variant of find_unexecuted_tool_calls without the executed-table test
find_all_tool_calls(text, executed) ==
  LET all == FindIter(text)
  IN  [i \in 1..Len(all) |-> ToolCall(all[i])]

\* variant of find_unexecuted_tool_calls that lists the calls right to left
find_unexecuted_tool_calls_reversed(text, executed) ==
  LET all == FindIter(text)
      IsNew(m) == ToolId(m.start) \notin DOMAIN executed
      fresh == SelectSeq(all, IsNew)
  IN  [i \in 1..Len(fresh) |-> ToolCall(fresh[Len(fresh) + 1 - i])]

\* ToolProcessor.find_unexecuted_tool_calls
find_unexecuted_tool_calls(text, executed) ==
  LET all == FindIter(text)
      IsNew(m) == ToolId(m.start) \notin DOMAIN executed
      fresh == SelectSeq(all, IsNew)
  IN  [i \in 1..Len(fresh) |-> ToolCall(fresh[i])]

\* a JSON string without escapes: "..." with no quote, backslash or control
\* character inside
JsonString(s) ==
  /\ Len(s) >= 2
  /\ s[1] = "\"" /\ s[Len(s)] = "\""
  /\ \A i \in 2..(Len(s) - 1) : s[i] \notin {"\"", "\\", "\n", "\t", "\r"}

\* a JSON decimal integer without sign
JsonNumber(s) ==
  /\ s # <<>>
  /\ \A i \in 1..Len(s) : s[i] \in Digits
  /\ (Len(s) = 1 \/ s[1] # "0")

\* true, false, null
JsonLiteral(s) ==
  s \in { <<"t","r","u","e">>, <<"f","a","l","s","e">>, <<"n","u","l","l">> }

JsonScalar(s) == JsonString(s) \/ JsonNumber(s) \/ JsonLiteral(s)

\* the offset of the quote that closes the string opening at offset p, or -1
ClosingQuote(s, p) ==
  LET qs == { i \in (p + 1)..(Len(s) - 1) : s[i + 1] = "\"" }
  IN  IF qs = {} THEN -1 ELSE CHOOSE i \in qs : \A k \in qs : i <= k

\* the value a JSON scalar denotes, as text: a string without its quotes
JsonValue(val) == IF JsonString(val) THEN SubSeq(val, 2, Len(val) - 1) ELSE val

\* content is {"key":scalar}, q being the offset of the quote that closes the key
IsJsonMember(content, q) ==
  /\ Len(content) >= 6
  /\ content[1] = "{" /\ content[2] = "\"" /\ content[Len(content)] = "}"
  /\ q >= 2 /\ q + 3 <= Len(content) - 1
  /\ JsonString(SubSeq(content, 2, q + 1))
  /\ content[q + 2] = ":"
  /\ JsonScalar(SubSeq(content, q + 3, Len(content) - 1))

\* the mapping {"key":scalar} denotes
JsonMember(content, q) ==
  SubSeq(content, 3, q) :> JsonValue(SubSeq(content, q + 3, Len(content) - 1))

\* json.loads restricted to the payloads of the model: {} and {"key":scalar}
\* are objects, a scalar (string without escapes, unsigned integer, true,
\* false, null) is a value that is not an object, every other payload raises
\* JSONDecodeError.  members maps each key to the text of its value.
JsonLoads(content) ==
  IF content = <<"{","}">>
    THEN [ok |-> TRUE, object |-> TRUE, members |-> <<>>]
    ELSE IF IsJsonMember(content, ClosingQuote(content, 1))
           THEN [ok |-> TRUE, object |-> TRUE,
                 members |-> JsonMember(content, ClosingQuote(content, 1))]
           ELSE IF JsonScalar(content)
                  THEN [ok |-> TRUE, object |-> FALSE, members |-> <<>>]
                  ELSE [ok |-> FALSE, object |-> FALSE, members |-> <<>>]

COMMAND == <<"c","o","m","m","a","n","d">>

CODE == <<"c","o","d","e">>

TIMEOUT == <<"t","i","m","e","o","u","t">>

\* names of the parameters of the runners (tools.py shell, run_python)
RunnerParams(name) ==
  IF name = SHELL THEN [required |-> {COMMAND}, all |-> {COMMAND, TIMEOUT}]
                  ELSE [required |-> {CODE}, all |-> {CODE}]

\* what execute_tool makes of the result j of json.loads: the parsed payload,
\* or {'command': content} / {'code': content} after JSONDecodeError
ArgsFrom(tool_call, j) ==
  IF j.ok
    THEN [mapping |-> j.object, members |-> j.members]
    ELSE [mapping |-> TRUE,
          members |-> (IF tool_call.name = SHELL THEN COMMAND ELSE CODE)
                        :> tool_call.content]

\* the args execute_tool builds for a registered tool
BuildArgs(tool_call) == ArgsFrom(tool_call, JsonLoads(tool_call.content))

\* function_to_call(**args) enters the runner: args is a mapping whose keys
\* fit the runner's parameters; otherwise Python raises TypeError
Fits(args, params) ==
  /\ args.mapping
  /\ params.required \subseteq DOMAIN args.members
  /\ DOMAIN args.members \subseteq params.all

\* the call function_to_call(**args) of the runner called name
Call(name, args) ==
  IF Fits(args, RunnerParams(name))
    THEN [invoked |-> TRUE, name |-> name, args |-> args.members]
    ELSE [invoked |-> FALSE, name |-> name, args |-> <<>>]

\* whether execute_tool enters a runner, and with which arguments; an
\* unregistered name has no runner
RunnerInvocation(tool_call) ==
  IF tool_call.name \in AVAILABLE_TOOLS
    THEN Call(tool_call.name, BuildArgs(tool_call))
    ELSE [invoked |-> FALSE, name |-> tool_call.name, args |-> <<>>]

\* text of the TypeError Python raises for function_to_call(**args) when args
\* is not a mapping or lacks a required parameter
TYPE_ERROR_TEXT == <<"T","y","p","e","E","r","r","o","r">>

\* the keys of args that are not parameters of the runner
ExtraKeys(args, params) == DOMAIN args.members \ params.all

\* str(e) of the TypeError: it quotes the key when args has a key that is not
\* a parameter of the runner
TypeErrorOf(name, args) ==
  IF args.mapping /\ ExtraKeys(args, RunnerParams(name)) # {}
    THEN name
           \o <<"(",")"," ","g","o","t"," ","a","n"," ","u","n","e","x","p","e","c",
                "t","e","d"," ","k","e","y","w","o","r","d"," ","a","r","g","u",
                "m","e","n","t"," ","'">>
           \o (CHOOSE k \in ExtraKeys(args, RunnerParams(name)) : TRUE) \o <<"'">>
    ELSE TYPE_ERROR_TEXT

TypeErrorText(tool_call) == TypeErrorOf(tool_call.name, BuildArgs(tool_call))

ENVELOPE_OPEN == <<"<","<","<"," ">>

ENVELOPE_CLOSE == <<" ",">",">",">">>

\* the 1000-character cap of execute_tool
OUTPUT_LIMIT == 1000

\* the cap left out
KeepAll(x) == x

\* x[:1000] if len(x) > 1000 else x
Truncate(x) == IF Len(x) > OUTPUT_LIMIT THEN SubSeq(x, 1, OUTPUT_LIMIT) ELSE x

Envelope(x) == ENVELOPE_OPEN \o Truncate(x) \o ENVELOPE_CLOSE

\* ToolProcessor.execute_tool; r is what the runner returns if it is called
execute_tool(tool_call, r) ==
  IF tool_call.name \in AVAILABLE_TOOLS
    THEN
      IF RunnerInvocation(tool_call).invoked
        THEN Envelope(IF r # <<>> THEN Strip(r)
                                  ELSE <<"n","o"," ","o","u","t","p","u","t">>)
        ELSE Envelope(<<"E","r","r","o","r"," ","e","x","e","c","u","t","i","n","g",
                        " ","t","o","o","l"," ">>
                      \o tool_call.name \o <<":"," ">> \o TypeErrorText(tool_call))
    ELSE Envelope(<<"E","r","r","o","r",":"," ","F","u","n","c","t","i","o","n"," ">>
                  \o tool_call.name \o <<" ","n","o","t"," ","f","o","u","n","d">>)

\* updated_text of process_text: f"{text}\n{tool_call.name} output:\n{output}"
UpdatedText(text, tool_call) ==
  text \o <<"\n">> \o tool_call.name \o <<" ","o","u","t","p","u","t",":","\n">>
       \o tool_call.output

\* ToolProcessor.process_text on the executed table `executed`
process_text(text, executed, r) ==
  LET unexecuted_calls == find_unexecuted_tool_calls(text, executed)
  IN  IF unexecuted_calls = <<>>
        THEN [updated_text |-> text, processed |-> FALSE, tool_call |-> NoCall,
              executed_tools |-> executed]
        ELSE
          LET first == unexecuted_calls[1]
              done == [first EXCEPT !.output = execute_tool(first, r),
                                    !.executed = TRUE]
          IN  [updated_text |-> UpdatedText(text, done),
               processed |-> TRUE,
               tool_call |-> done,
               executed_tools |->
                 [id \in DOMAIN executed \cup {done.id} |->
                    IF id = done.id THEN done ELSE executed[id]]]

(***************************************************************************)
(* Prompt manager (prompt_manager.py)                                      *)
(***************************************************************************)
\* header of the system message; the serialized catalog and the rubric that
\* follow it are fixed text no component reads back
SYSTEM_PROMPT == <<"A","v","a","i","l","a","b","l","e"," ","t","o","o","l","s",":">>

\* the instruction handed to add_user_message before run()
USER_INSTRUCTION == <<"t","a","s","k">>

\* a log entry; completed is read with .get('completed', False)
Message(role, content) == [role |-> role, content |-> content, completed |-> FALSE]

\* PromptManager.__init__
InitialMessages == <<Message("system", SYSTEM_PROMPT)>>

\* PromptManager.add_user_instruction
add_user_instruction(msgs, content) == Append(msgs, Message("user", content))

\* [m for m in self.messages if m['role'] == 'assistant'], as indexes
AssistantIdx(msgs) == {i \in 1..Len(msgs) : msgs[i].role = "assistant"}

\* index of assistant_msgs[-1]; 0 when there is no assistant entry
LastAssistant(msgs) ==
  IF AssistantIdx(msgs) = {} THEN 0
  ELSE CHOOSE i \in AssistantIdx(msgs) : \A j \in AssistantIdx(msgs) : j <= i

\* variant of append_assistant_content without the completed test
append_to_last_assistant(msgs, content) ==
  LET a == LastAssistant(msgs)
  IN  IF a # 0
        THEN [msgs EXCEPT ![a].content = @ \o content]
        ELSE Append(msgs, Message("assistant", content))

\* variant of append_assistant_content that always starts a new entry
append_new_assistant_entry(msgs, content) ==
  Append(msgs, Message("assistant", content))

\* PromptManager.append_assistant_content
append_assistant_content(msgs, content) ==
  LET a == LastAssistant(msgs)
  IN  IF a # 0 /\ ~msgs[a].completed
        THEN [msgs EXCEPT ![a].content = @ \o content]
        ELSE Append(msgs, Message("assistant", content))

\* variant of complete_current_assistant that marks nothing
complete_nothing(msgs) == msgs

\* PromptManager.complete_current_assistant
complete_current_assistant(msgs) ==
  LET a == LastAssistant(msgs)
  IN  IF a # 0 /\ ~msgs[a].completed
        THEN [msgs EXCEPT ![a].completed = TRUE]
        ELSE msgs

\* variant of add_tool_output_as_user_message that puts the message before
\* the last entry of the log
insert_tool_output_as_user_message(msgs, tool_name, output) ==
  SubSeq(msgs, 1, Len(msgs) - 1)
    \o <<Message("user", tool_name \o TOOL_OUTPUT_PREFIX \o output)>>
    \o SubSeq(msgs, Len(msgs), Len(msgs))

\* PromptManager.add_tool_output_as_user_message
add_tool_output_as_user_message(msgs, tool_name, output) ==
  Append(msgs, Message("user", tool_name \o TOOL_OUTPUT_PREFIX \o output))

\* variant of add_feedback_as_user_message that puts the message before the
\* last entry of the log
insert_feedback_as_user_message(msgs, fb) ==
  SubSeq(msgs, 1, Len(msgs) - 1) \o <<Message("user", fb)>>
    \o SubSeq(msgs, Len(msgs), Len(msgs))

\* PromptManager.add_feedback_as_user_message
add_feedback_as_user_message(msgs, fb) == Append(msgs, Message("user", fb))

(***************************************************************************)
(* Task agent (agent.py): pure parts                                       *)
(***************************************************************************)
\* TaskAgent.should_continue
should_continue(content, max_iter) ==
  ~Contains(Lower(content), TASK_COMPLETE_TAG) /\ max_iter > 0

\* TaskAgent.check_completion: the result, or None
check_completion(msgs, max_iter) ==
  LET a == LastAssistant(msgs)
  IN  IF a # 0 /\ ~should_continue(msgs[a].content, max_iter)
        THEN LET content == Lower(msgs[a].content)
                 task_complete_idx == Find(content, TASK_COMPLETE_TAG)
                 rest == Strip(SliceFrom(msgs[a].content,
                                         task_complete_idx + Len(TASK_COMPLETE_TAG)))
             IN  IF rest # <<>> THEN rest ELSE TASK_COMPLETE_DEFAULT_RESULT
        ELSE None

\* error_msg of handle_error: f"\nError during execution: {str(error)}"
ErrorMsg(text) ==
  <<"\n","E","r","r","o","r"," ","d","u","r","i","n","g"," ","e","x","e","c","u","t",
    "i","o","n",":"," ">> \o text

\* variant of LoopTest that runs one iteration more
LoopTestInclusive(iter, max_iter) == iter <= max_iter

\* the test of the while loop of run
LoopTest(iter, max_iter) == iter < max_iter

(***************************************************************************)
(* What the environment can do                                             *)
(***************************************************************************)
\* fragments the main model can yield
MainFragments ==
  { <<" ","a"," ">>,
    <<"[","s","h","e","l","l","]","|","|","|","x">>,
    <<"|","|","|">>,
    <<"[","f","]","|","|","|","1","|","|","|",
      "[","s","h","e","l","l","]","|","|","|","x","|","|","|">>,
    <<"[","T","a","s","k","_","C","o","m","p","l","e","t","e","]","\n">> }

\* full responses of the feedback critic
FeedbackResponses == { <<>>, <<"g","o">> }

\* str(e) of an exception raised by the main runner / by the feedback runner
MainErrors == { <<"d","o","w","n">> }

FeedbackErrors == { <<"b","u","s","y">> }

\* what a runner (shell, run_python) returns
RunnerOutputs == { <<>>, <<"h","i">> }

\* fragments appended to the buffer of the scanner harness
ScanFragments ==
  { <<"[","s","h","e","l","l","]","|","|","|","x","|","|">>,
    <<"|","[","f","]","|","|","|">>,
    <<"1","|","|","|">> }

(***************************************************************************)
(* State                                                                   *)
(***************************************************************************)
VARIABLES
  messages,        \* PromptManager.messages
  executed_tools,  \* ToolProcessor.executed_tools: id -> ToolCall
  max_iterations,  \* TaskAgent.max_iterations
  iteration,       \* local of run
  token_buffer,    \* local of process_iteration
  tool_call,       \* the call process_text returned, NoCall when none
  feedback,        \* value returned by get_feedback
  error,           \* the exception being handled: [src, text]
  result,          \* value run returned: a text, False, or None while running
  outcome,         \* "none", "running", "returned" or "raised"
  pc,              \* position of the agent's control
  fragments,       \* fragments the main model has yielded so far
  runs,            \* calls of run() so far
  appends,         \* fragments a harness appended so far (buffer or assistant entry)
  origin,          \* history: what appended each entry of messages
  markers,         \* history: markers in the order they became fully present
  stream_base,     \* history: Len(markers) when the current stream started
  served,          \* history: index in markers of each tool-output message
  exec_log,        \* history: ids in the order execute_tool ran them
  sentinel_seen,   \* history: a stream of the main model held the sentinel
  runner_calls     \* history: [name, args] of each runner invocation, in order

vars ==
  <<messages, executed_tools, max_iterations, iteration, token_buffer, tool_call,
    feedback, error, result, outcome, pc, fragments, runs, appends, origin,
    markers, stream_base, served, exec_log, sentinel_seen, runner_calls>>

NoError == [src |-> "none", text |-> <<>>]

\* the agent after TaskAgent(max_iterations = n) and add_user_message(...)
Init ==
  /\ max_iterations \in 0..MaxIterations
  /\ messages = add_user_instruction(InitialMessages, USER_INSTRUCTION)
  /\ origin = <<"system", "instruction">>
  /\ executed_tools = <<>>
  /\ iteration = 0
  /\ token_buffer = <<>>
  /\ tool_call = NoCall
  /\ feedback = <<>>
  /\ error = NoError
  /\ result = None
  /\ outcome = "none"
  /\ pc = "idle"
  /\ fragments = 0
  /\ runs = 0
  /\ appends = 0
  /\ markers = <<>>
  /\ stream_base = 0
  /\ served = <<>>
  /\ exec_log = <<>>
  /\ sentinel_seen = FALSE
  /\ runner_calls = <<>>

\* origin after a prompt-manager call that may have appended one entry
Originated(msgs, kind) ==
  IF Len(msgs) > Len(messages) THEN Append(origin, kind) ELSE origin

\* runner_calls with one more entry if inv entered a runner
Recorded(inv) ==
  IF inv.invoked THEN Append(runner_calls, [name |-> inv.name, args |-> inv.args])
                 ELSE runner_calls

\* runner_calls after execute_tool(call)
Invoked(call) == Recorded(RunnerInvocation(call))

\* markers of text, as [name, content], beyond the first n matches
MarkersBeyond(text, n) ==
  LET all == FindIter(text)
  IN  [i \in 1..(Len(all) - n) |->
         [name |-> all[n + i].name, content |-> Strip(all[n + i].group2)]]

(***************************************************************************)
(* Task agent (agent.py): run, process_iteration and what they call        *)
(***************************************************************************)
\* run() is called: iteration = 0, control reaches the while test
Run ==
  /\ pc \in {"idle", "done"}
  /\ runs < MaxRuns
  /\ runs' = runs + 1
  /\ iteration' = 0
  /\ token_buffer' = <<>>
  /\ tool_call' = NoCall
  /\ feedback' = <<>>
  /\ error' = NoError
  /\ result' = None
  /\ outcome' = "running"
  /\ pc' = "loop"
  /\ UNCHANGED <<messages, executed_tools, max_iterations, fragments, appends,
                 origin, markers, stream_base, served, exec_log,
                 sentinel_seen, runner_calls>>

\* while iteration < max_iterations: iteration += 1; process_iteration starts
\* a stream with an empty buffer.  Otherwise control leaves the loop.
Loop ==
  /\ pc = "loop"
  /\ IF LoopTest(iteration, max_iterations)
       THEN /\ iteration' = iteration + 1
            /\ token_buffer' = <<>>
            /\ stream_base' = Len(markers)
            /\ pc' = "stream"
       ELSE /\ pc' = "cap_append"
            /\ UNCHANGED <<iteration, token_buffer, stream_base>>
  /\ UNCHANGED <<messages, executed_tools, max_iterations, tool_call, feedback,
                 error, result, outcome, fragments, runs, appends, origin,
                 markers, served, exec_log,
                 sentinel_seen, runner_calls>>

\* the stream yields fragment f: token_buffer += token, then
\* handle_generation_output calls process_text (runner result r if a tool runs)
Token(f, r) ==
  /\ pc = "stream"
  /\ fragments < MaxFragments
  /\ LET buf == token_buffer \o f
         res == process_text(buf, executed_tools, r)
     IN  /\ token_buffer' = buf
         /\ fragments' = fragments + 1
         /\ markers' = markers \o MarkersBeyond(buf, Len(FindIter(token_buffer)))
         /\ executed_tools' = res.executed_tools
         /\ tool_call' = res.tool_call
         /\ exec_log' = IF res.processed THEN Append(exec_log, res.tool_call.id)
                                         ELSE exec_log
         /\ runner_calls' = IF tool_call' # NoCall THEN Invoked(tool_call')
                                                   ELSE runner_calls
         /\ pc' = IF res.processed THEN "ptc_append" ELSE "stream"
         /\ sentinel_seen' = (sentinel_seen \/ Contains(Lower(buf), TASK_COMPLETE_TAG))
  /\ UNCHANGED <<messages, max_iterations, iteration, feedback, error, result,
                 outcome, runs, appends, origin, stream_base, served>>

\* the stream is exhausted: handle_generation_output once more, then the
\* remaining buffer becomes assistant content and check_completion is next
StreamEnd(r) ==
  /\ pc = "stream"
  /\ LET res == process_text(token_buffer, executed_tools, r)
     IN  /\ executed_tools' = res.executed_tools
         /\ tool_call' = res.tool_call
         /\ exec_log' = IF res.processed THEN Append(exec_log, res.tool_call.id)
                                         ELSE exec_log
         /\ runner_calls' = IF tool_call' # NoCall THEN Invoked(tool_call')
                                                   ELSE runner_calls
         /\ IF res.processed
              THEN /\ pc' = "ptc_append"
                   /\ UNCHANGED <<messages, origin>>
              ELSE LET msgs == IF token_buffer # <<>>
                                 THEN append_assistant_content(messages, token_buffer)
                                 ELSE messages
                   IN  /\ messages' = msgs
                       /\ origin' = Originated(msgs, "assistant")
                       /\ pc' = "check"
  /\ UNCHANGED <<max_iterations, iteration, token_buffer, feedback, error, result,
                 outcome, fragments, runs, appends, markers, stream_base, served,
                 sentinel_seen>>

\* the main runner raises while the agent waits for a fragment
StreamRaise(e) ==
  /\ pc = "stream"
  /\ error' = [src |-> "main", text |-> e]
  /\ pc' = "err_append"
  /\ UNCHANGED <<messages, executed_tools, max_iterations, iteration, token_buffer,
                 tool_call, feedback, result, outcome, fragments, runs, appends,
                 origin, markers, stream_base, served, exec_log,
                 sentinel_seen, runner_calls>>

\* the text handle_generation_output hands to process_tool_call as
\* tool_call_text: its own token_buffer, not the updated text of process_text
ToolCallTextUpdated(buf, call) == UpdatedText(buf, call)

ToolCallText(buf, call) == buf

\* process_tool_call: append_assistant_content(tool_call_text)
PtcAppend ==
  /\ pc = "ptc_append"
  /\ messages' = append_assistant_content(messages, ToolCallText(token_buffer, tool_call))
  /\ origin' = Originated(messages', "assistant")
  /\ pc' = "ptc_complete"
  /\ UNCHANGED <<executed_tools, max_iterations, iteration, token_buffer, tool_call,
                 feedback, error, result, outcome, fragments, runs, appends,
                 markers, stream_base, served, exec_log,
                 sentinel_seen, runner_calls>>

\* process_tool_call: complete_current_assistant()
PtcComplete ==
  /\ pc = "ptc_complete"
  /\ messages' = complete_current_assistant(messages)
  /\ pc' = "ptc_tool_output"
  /\ UNCHANGED <<executed_tools, max_iterations, iteration, token_buffer, tool_call,
                 feedback, error, result, outcome, fragments, runs, appends, origin,
                 markers, stream_base, served, exec_log,
                 sentinel_seen, runner_calls>>

\* index in FindIter(text) of the match that starts at start_pos
MatchIndex(text, start_pos) ==
  CHOOSE i \in 1..Len(FindIter(text)) : FindIter(text)[i].start = start_pos

\* process_tool_call: add_tool_output_as_user_message(name, output)
PtcToolOutput ==
  /\ pc = "ptc_tool_output"
  /\ messages' = add_tool_output_as_user_message(messages, tool_call.name,
                                                 tool_call.output)
  /\ origin' = Originated(messages', "tool_output")
  /\ served' = Append(served,
                      stream_base + MatchIndex(token_buffer, tool_call.start_pos))
  /\ pc' = "ptc_feedback"
  /\ UNCHANGED <<executed_tools, max_iterations, iteration, token_buffer, tool_call,
                 feedback, error, result, outcome, fragments, runs, appends,
                 markers, stream_base, exec_log,
                 sentinel_seen, runner_calls>>

\* process_tool_call: get_feedback returns the critic's full response
PtcFeedback(resp) ==
  /\ pc = "ptc_feedback"
  /\ feedback' = resp
  /\ pc' = "ptc_add_feedback"
  /\ UNCHANGED <<messages, executed_tools, max_iterations, iteration, token_buffer,
                 tool_call, error, result, outcome, fragments, runs, appends,
                 origin, markers, stream_base, served, exec_log,
                 sentinel_seen, runner_calls>>

\* process_tool_call: the feedback runner raises; the except clause of
\* process_iteration catches it
PtcFeedbackRaise(e) ==
  /\ pc = "ptc_feedback"
  /\ error' = [src |-> "feedback", text |-> e]
  /\ pc' = "err_append"
  /\ UNCHANGED <<messages, executed_tools, max_iterations, iteration, token_buffer,
                 tool_call, feedback, result, outcome, fragments, runs, appends,
                 origin, markers, stream_base, served, exec_log,
                 sentinel_seen, runner_calls>>

\* where control goes when process_iteration returns v to run:
\* "if result is not None: return result", else back to the while test
AfterIteration(v) == IF v # None THEN "done" ELSE "loop"

\* process_tool_call: add_feedback_as_user_message; handle_generation_output
\* returns (True, ""), process_iteration returns False to run
PtcAddFeedback ==
  /\ pc = "ptc_add_feedback"
  /\ messages' = add_feedback_as_user_message(messages, feedback)
  /\ origin' = Originated(messages', "feedback")
  /\ token_buffer' = <<>>
  /\ pc' = AfterIteration(False)
  /\ result' = IF pc' = "done" THEN False ELSE result
  /\ outcome' = IF pc' = "done" THEN "returned" ELSE outcome
  /\ UNCHANGED <<executed_tools, max_iterations, iteration, tool_call, feedback,
                 error, fragments, runs, appends, markers, stream_base, served,
                 exec_log,
                 sentinel_seen, runner_calls>>

\* process_iteration: return self.check_completion()
Check ==
  /\ pc = "check"
  /\ LET v == check_completion(messages, max_iterations)
     IN  /\ pc' = AfterIteration(v)
         /\ result' = IF pc' = "done" THEN v ELSE result
         /\ outcome' = IF pc' = "done" THEN "returned" ELSE outcome
  /\ UNCHANGED <<messages, executed_tools, max_iterations, iteration, token_buffer,
                 tool_call, feedback, error, fragments, runs, appends, origin,
                 markers, stream_base, served, exec_log,
                 sentinel_seen, runner_calls>>

\* variant of ErrorContinuation that keeps the fragments received so far
ErrorContinuationWithBuffer(buf, text) == buf \o ErrorMsg(text)

\* what the except clause of process_iteration records when the stream fails
\* with buffer buf: handle_error gets the exception alone, the local
\* token_buffer is dropped
ErrorContinuation(buf, text) == ErrorMsg(text)

\* handle_error: append_assistant_content(error_msg)
ErrAppend ==
  /\ pc = "err_append"
  /\ messages' = append_assistant_content(messages,
                 ErrorContinuation(token_buffer, error.text))
  /\ origin' = Originated(messages', "assistant")
  /\ pc' = "err_complete"
  /\ UNCHANGED <<executed_tools, max_iterations, iteration, token_buffer, tool_call,
                 feedback, error, result, outcome, fragments, runs, appends,
                 markers, stream_base, served, exec_log,
                 sentinel_seen, runner_calls>>

\* handle_error: complete_current_assistant()
ErrComplete ==
  /\ pc = "err_complete"
  /\ messages' = complete_current_assistant(messages)
  /\ pc' = "err_feedback"
  /\ UNCHANGED <<executed_tools, max_iterations, iteration, token_buffer, tool_call,
                 feedback, error, result, outcome, fragments, runs, appends, origin,
                 markers, stream_base, served, exec_log,
                 sentinel_seen, runner_calls>>

\* handle_error: get_feedback returns the critic's full response
ErrFeedback(resp) ==
  /\ pc = "err_feedback"
  /\ feedback' = resp
  /\ pc' = "err_add_feedback"
  /\ UNCHANGED <<messages, executed_tools, max_iterations, iteration, token_buffer,
                 tool_call, error, result, outcome, fragments, runs, appends,
                 origin, markers, stream_base, served, exec_log,
                 sentinel_seen, runner_calls>>

\* handle_error: the feedback runner raises; nothing catches it, run raises
ErrFeedbackRaise(e) ==
  /\ pc = "err_feedback"
  /\ error' = [src |-> "feedback", text |-> e]
  /\ outcome' = "raised"
  /\ pc' = "done"
  /\ UNCHANGED <<messages, executed_tools, max_iterations, iteration, token_buffer,
                 tool_call, feedback, result, fragments, runs, appends, origin,
                 markers, stream_base, served, exec_log,
                 sentinel_seen, runner_calls>>

\* handle_error: add_feedback_as_user_message; return messages[-1]['content'],
\* which process_iteration returns to run
ErrAddFeedback ==
  /\ pc = "err_add_feedback"
  /\ messages' = add_feedback_as_user_message(messages, feedback)
  /\ origin' = Originated(messages', "feedback")
  /\ pc' = AfterIteration(messages'[Len(messages')].content)
  /\ result' = IF pc' = "done" THEN messages'[Len(messages')].content ELSE result
  /\ outcome' = IF pc' = "done" THEN "returned" ELSE outcome
  /\ UNCHANGED <<executed_tools, max_iterations, iteration, token_buffer, tool_call,
                 feedback, error, fragments, runs, appends, markers, stream_base,
                 served, exec_log,
                 sentinel_seen, runner_calls>>

\* run, after the loop: append_assistant_content(MAX_ITERATIONS_MESSAGE)
CapAppend ==
  /\ pc = "cap_append"
  /\ messages' = append_assistant_content(messages, MAX_ITERATIONS_MESSAGE)
  /\ origin' = Originated(messages', "assistant")
  /\ pc' = "cap_complete"
  /\ UNCHANGED <<executed_tools, max_iterations, iteration, token_buffer, tool_call,
                 feedback, error, result, outcome, fragments, runs, appends,
                 markers, stream_base, served, exec_log,
                 sentinel_seen, runner_calls>>

\* run, after the loop: complete_current_assistant(); return
\* messages[-1]['content']
CapComplete ==
  /\ pc = "cap_complete"
  /\ messages' = complete_current_assistant(messages)
  /\ result' = messages'[Len(messages')].content
  /\ outcome' = "returned"
  /\ pc' = "done"
  /\ UNCHANGED <<executed_tools, max_iterations, iteration, token_buffer, tool_call,
                 feedback, error, fragments, runs, appends, origin, markers,
                 stream_base, served, exec_log,
                 sentinel_seen, runner_calls>>

Next ==
  \/ Run
  \/ Loop
  \/ \E f \in MainFragments, r \in RunnerOutputs : Token(f, r)
  \/ \E r \in RunnerOutputs : StreamEnd(r)
  \/ \E e \in MainErrors : StreamRaise(e)
  \/ PtcAppend
  \/ PtcComplete
  \/ PtcToolOutput
  \/ \E resp \in FeedbackResponses : PtcFeedback(resp)
  \/ \E e \in FeedbackErrors : PtcFeedbackRaise(e)
  \/ PtcAddFeedback
  \/ Check
  \/ ErrAppend
  \/ ErrComplete
  \/ \E resp \in FeedbackResponses : ErrFeedback(resp)
  \/ \E e \in FeedbackErrors : ErrFeedbackRaise(e)
  \/ ErrAddFeedback
  \/ CapAppend
  \/ CapComplete

Spec == Init /\ [][Next]_vars

(***************************************************************************)
(* Scanner harness: process_text called on one growing buffer              *)
(***************************************************************************)
\* the caller appends a fragment to its buffer
ScanAppend(f) ==
  /\ appends < MaxAppends
  /\ appends' = appends + 1
  /\ token_buffer' = token_buffer \o f
  /\ UNCHANGED <<messages, executed_tools, max_iterations, iteration, tool_call,
                 feedback, error, result, outcome, pc, fragments, runs, origin,
                 markers, stream_base, served, exec_log,
                 sentinel_seen, runner_calls>>

\* the caller calls process_text(buffer) and goes on with its own buffer
\* (adopt = FALSE) or with the updated text it got back (adopt = TRUE)
ScanProcess(r, adopt) ==
  /\ LET res == process_text(token_buffer, executed_tools, r)
     IN  /\ executed_tools' = res.executed_tools
         /\ tool_call' = res.tool_call
         /\ exec_log' = IF res.processed THEN Append(exec_log, res.tool_call.id)
                                         ELSE exec_log
         /\ runner_calls' = IF tool_call' # NoCall THEN Invoked(tool_call')
                                                   ELSE runner_calls
         /\ token_buffer' = IF adopt THEN res.updated_text ELSE token_buffer
  /\ UNCHANGED <<messages, max_iterations, iteration, feedback, error, result,
                 outcome, pc, fragments, runs, appends, origin, markers,
                 stream_base, served,
                 sentinel_seen>>

ScanNext ==
  \/ \E f \in ScanFragments : ScanAppend(f)
  \/ \E r \in RunnerOutputs, adopt \in BOOLEAN : ScanProcess(r, adopt)

ScanSpec == Init /\ [][ScanNext]_vars

(***************************************************************************)
(* Tool-execution harness: execute_tool called on one marker at a time     *)
(***************************************************************************)
\* a text of n characters
LongText(n) == [i \in 1..n |-> "a"]

\* tool names of the markers: the two registered tools, an unregistered name
\* and an unregistered name as long as the output cap
ExecNames == { SHELL, RUN_PYTHON, <<"f">>, LongText(OUTPUT_LIMIT) }

\* payloads of the markers: plain text, JSON scalars, JSON objects
ExecContents ==
  { <<"x">>,
    <<"1">>,
    <<"t","r","u","e">>,
    <<"\"","l","s","\"">>,
    <<"{","}">>,
    <<"{","\"","c","o","m","m","a","n","d","\"",":","\"","x","\"","}">>,
    <<"{","\"","c","o","d","e","\"",":","\"","x","\"","}">>,
    <<"{","\"">> \o LongText(OUTPUT_LIMIT) \o <<"\"",":","1","}">> }

\* what a runner returns: nothing, blanks, a short text, texts at and over the
\* output cap
ExecOutputs ==
  { <<>>,
    <<" ">>,
    <<"h","i">>,
    LongText(OUTPUT_LIMIT),
    LongText(OUTPUT_LIMIT + 1),
    <<" ">> \o LongText(OUTPUT_LIMIT) \o <<" ">> }

\* the match of tool_pattern on the text [name]|||content|||
MarkerMatch(name, content) ==
  [ok |-> TRUE,
   start |-> 0,
   end |-> Len(name) + Len(content) + 2 + 2 * Len(DELIM),
   name |-> name,
   group2 |-> content]

\* execute_tool as process_text calls it, with the fields process_text sets
Executed(call, r) ==
  [call EXCEPT !.output = execute_tool(call, r), !.executed = TRUE]

\* on a new ToolProcessor the scanner finds the marker [name]|||content|||
\* and execute_tool runs it
ExecCall(name, content, r) ==
  /\ exec_log = <<>>
  /\ tool_call' = Executed(ToolCall(MarkerMatch(name, content)), r)
  /\ exec_log' = Append(exec_log, tool_call'.id)
  /\ runner_calls' = Invoked(tool_call')
  /\ UNCHANGED <<messages, executed_tools, max_iterations, iteration, token_buffer,
                 feedback, error, result, outcome, pc, fragments, runs, appends,
                 origin, markers, stream_base, served,
                 sentinel_seen>>

ExecNext ==
  \E name \in ExecNames, content \in ExecContents, r \in ExecOutputs :
    ExecCall(name, content, r)

ExecSpec == Init /\ [][ExecNext]_vars

(***************************************************************************)
(* Prompt-manager harness: the operations of PromptManager in any order    *)
(***************************************************************************)
\* contents the harness passes to append_assistant_content
PMContents == { <<"a">>, <<"b">> }

PMAddUserInstruction ==
  /\ Len(messages) < MaxLog
  /\ messages' = add_user_instruction(messages, USER_INSTRUCTION)
  /\ origin' = Append(origin, "instruction")
  /\ UNCHANGED <<executed_tools, max_iterations, iteration, token_buffer, tool_call,
                 feedback, error, result, outcome, pc, fragments, runs, appends,
                 markers, stream_base, served, exec_log,
                 sentinel_seen, runner_calls>>

PMAppendAssistantContent(c) ==
  /\ appends < MaxAppends
  /\ appends' = appends + 1
  /\ messages' = append_assistant_content(messages, c)
  /\ origin' = Originated(messages', "assistant")
  /\ UNCHANGED <<executed_tools, max_iterations, iteration, token_buffer, tool_call,
                 feedback, error, result, outcome, pc, fragments, runs,
                 markers, stream_base, served, exec_log,
                 sentinel_seen, runner_calls>>

PMCompleteCurrentAssistant ==
  /\ messages' = complete_current_assistant(messages)
  /\ UNCHANGED <<executed_tools, max_iterations, iteration, token_buffer, tool_call,
                 feedback, error, result, outcome, pc, fragments, runs, appends,
                 origin, markers, stream_base, served, exec_log,
                 sentinel_seen, runner_calls>>

PMAddToolOutput(r) ==
  /\ Len(messages) < MaxLog
  /\ messages' = add_tool_output_as_user_message(messages, SHELL, Envelope(r))
  /\ origin' = Append(origin, "tool_output")
  /\ UNCHANGED <<executed_tools, max_iterations, iteration, token_buffer, tool_call,
                 feedback, error, result, outcome, pc, fragments, runs, appends,
                 markers, stream_base, served, exec_log,
                 sentinel_seen, runner_calls>>

PMAddFeedback(resp) ==
  /\ Len(messages) < MaxLog
  /\ messages' = add_feedback_as_user_message(messages, resp)
  /\ origin' = Append(origin, "feedback")
  /\ UNCHANGED <<executed_tools, max_iterations, iteration, token_buffer, tool_call,
                 feedback, error, result, outcome, pc, fragments, runs, appends,
                 markers, stream_base, served, exec_log,
                 sentinel_seen, runner_calls>>

PMNext ==
  \/ PMAddUserInstruction
  \/ \E c \in PMContents : PMAppendAssistantContent(c)
  \/ PMCompleteCurrentAssistant
  \/ \E r \in RunnerOutputs : PMAddToolOutput(r)
  \/ \E resp \in FeedbackResponses : PMAddFeedback(resp)

PMSpec == Init /\ [][PMNext]_vars

(***************************************************************************)
(* Helpers of the properties                                               *)
(***************************************************************************)
EndsWith(s, suf) == Len(suf) <= Len(s) /\ SliceFrom(s, Len(s) - Len(suf)) = suf

StartsWith(s, pre) == OccursAt(s, pre, 0)

\* how often x occurs in the sequence q
Count(q, x) == Cardinality({i \in 1..Len(q) : q[i] = x})

\* indexes of the tool-output messages of the log
ToolOutputIdx == {i \in 1..Len(origin) : origin[i] = "tool_output"}

(***************************************************************************)
(* C1: after a tool call is executed in iteration i < max_iterations, run  *)
(* does not return: once the feedback of the tool cycle is appended, the   *)
(* agent is back at the while test to start iteration i + 1.               *)
(***************************************************************************)
C1_ReentersLoopAfterTool ==
  [][(pc = "ptc_add_feedback" /\ iteration < max_iterations) => pc' = "loop"]_vars

(***************************************************************************)
(* C2: marker ids never collide across buffers: whenever the agent has     *)
(* scanned its buffer and goes on streaming, the buffer holds no complete  *)
(* marker (each one was returned as unexecuted and executed), and the call *)
(* that is executed is the leftmost complete marker of the buffer.         *)
(***************************************************************************)
C2_NoCollisionAcrossBuffers ==
  /\ (pc = "stream" => FindIter(token_buffer) = <<>>)
  /\ (pc = "ptc_append" => tool_call.start_pos = FindIter(token_buffer)[1].start)

(***************************************************************************)
(* C3: on one growing buffer, process_text executes each marker exactly    *)
(* once: no id is executed twice, a marker matched in a prefix is matched  *)
(* with the same offsets, name and content in every longer buffer, and     *)
(* when process_text finds nothing to execute every marker of the buffer   *)
(* has been executed once.                                                 *)
(***************************************************************************)
C3_IdempotentExecution ==
  /\ [](\A i \in 1..Len(exec_log) : Count(exec_log, exec_log[i]) = 1)
  /\ [][\A i \in 1..Len(FindIter(token_buffer)) :
          /\ i <= Len(FindIter(token_buffer'))
          /\ FindIter(token_buffer')[i] = FindIter(token_buffer)[i]]_vars
  /\ [][(appends' = appends /\ tool_call' = NoCall) =>
          \A i \in 1..Len(FindIter(token_buffer')) :
            Count(exec_log', ToolId(FindIter(token_buffer')[i].start)) = 1]_vars

\* two markers of one growing buffer have been executed, the second one
\* completed by a later fragment
C3_Witness ==
  /\ pc = "idle"
  /\ appends = 3
  /\ Len(exec_log) = 2
  /\ Len(FindIter(token_buffer)) = 2

(***************************************************************************)
(* C4: a failure of the main runner in iteration i < max_iterations does   *)
(* not end the run: once the feedback of the error cycle is appended, the  *)
(* agent is back at the while test to start iteration i + 1.               *)
(***************************************************************************)
C4_ContinuesAfterTransportFailure ==
  [][(pc = "err_add_feedback" /\ error.src = "main" /\ iteration < max_iterations)
       => pc' = "loop"]_vars

(***************************************************************************)
(* C5: with max_iterations >= 1 and a main model that never emits the      *)
(* sentinel (and no runner failure), what run returns ends with the        *)
(* maximum-iterations notice.                                              *)
(***************************************************************************)
C5_CapNoticeWithoutSentinel ==
  (/\ outcome = "returned"
   /\ max_iterations >= 1
   /\ ~sentinel_seen
   /\ error.src = "none")
    => (result # False /\ EndsWith(result, MAX_ITERATIONS_MESSAGE))

(***************************************************************************)
(* C6: with finite streams and tool calls, run ends after at most          *)
(* max_iterations calls of process_iteration: the iteration counter, which *)
(* counts those calls, never exceeds the cap, and every step of a running  *)
(* run lowers a measure that is a natural number, so that no run goes on   *)
(* for ever whatever the models emit.                                      *)
(***************************************************************************)
\* steps that are left inside one iteration, at most
StepsLeft ==
  CASE pc = "stream" -> 13
    [] pc = "ptc_append" -> 12
    [] pc = "ptc_complete" -> 11
    [] pc = "ptc_tool_output" -> 10
    [] pc = "ptc_feedback" -> 9
    [] pc = "ptc_add_feedback" -> 8
    [] pc = "err_append" -> 7
    [] pc = "err_complete" -> 6
    [] pc = "err_feedback" -> 5
    [] pc = "err_add_feedback" -> 4
    [] pc = "check" -> 4
    [] pc = "loop" -> 3
    [] pc = "cap_append" -> 2
    [] pc = "cap_complete" -> 1
    [] OTHER -> 0

\* fragments still to come, then iterations still to start, then steps
Measure ==
  (MaxFragments - fragments) * 14 * (MaxIterations + 2)
    + (max_iterations - iteration) * 14
    + StepsLeft

IncompleteIdx == {i \in AssistantIdx(messages) : ~messages[i].completed}

C7_WellFormedTurns ==
  /\ [](/\ Cardinality(IncompleteIdx) <= 1
        /\ \A i \in IncompleteIdx : i = Len(messages)
        /\ \A i \in ToolOutputIdx :
             /\ i > 1
             /\ messages[i - 1].role = "assistant"
             /\ messages[i - 1].completed)
  /\ [][(Len(origin') > Len(origin) /\ origin'[Len(origin')] = "tool_output") =>
          /\ messages[Len(messages)].role = "assistant"
          /\ messages[Len(messages)].completed
          /\ SubSeq(messages', 1, Len(messages)) = messages]_vars

\* the log holds a tool-output message and, later, an open assistant turn
C7_Witness ==
  /\ ToolOutputIdx # {}
  /\ IncompleteIdx # {}
  /\ pc = "check"

(***************************************************************************)
(* C8 as stated: when run is over, the tool-output messages of the log     *)
(* match, one for one and in order, the markers that became fully present  *)
(* in the main model's streams.                                            *)
(***************************************************************************)
\* index in the log of the k-th tool-output message
NthToolOutput(k) ==
  CHOOSE i \in ToolOutputIdx : Cardinality({j \in ToolOutputIdx : j <= i}) = k

C8_OneForOneInOrder ==
  pc = "done" =>
    /\ Cardinality(ToolOutputIdx) = Len(markers)
    /\ \A k \in 1..Len(markers) :
         StartsWith(messages[NthToolOutput(k)].content,
                    markers[k].name \o TOOL_OUTPUT_PREFIX)

(***************************************************************************)
(* C8 amended: the tool-output messages of the log belong, in order, to    *)
(* markers taken in the order in which they became fully present: each     *)
(* message carries the name of its marker and later messages belong to     *)
(* later markers; a marker that became present need not have a message.    *)
(***************************************************************************)
C8_OrderPreserved ==
  /\ Len(served) = Cardinality(ToolOutputIdx)
  /\ \A k \in 1..Len(served) :
       /\ served[k] \in 1..Len(markers)
       /\ (k > 1 => served[k - 1] < served[k])
       /\ StartsWith(messages[NthToolOutput(k)].content,
                     markers[served[k]].name \o TOOL_OUTPUT_PREFIX)
  /\ (pc = "ptc_feedback" =>
        /\ markers[served[Len(served)]].name = tool_call.name
        /\ markers[served[Len(served)]].content = tool_call.content)

\* two tool outputs of different tools are in the log and one marker that
\* became present has none
C8_Witness ==
  /\ Len(served) = 2
  /\ Len(markers) > 2
  /\ markers[served[1]].name # markers[served[2]].name

(***************************************************************************)
(* C9 as stated: after a tool call executed from buffer B, the assistant   *)
(* content recorded for the turn is the updated buffer of process_text     *)
(* (B, "\n", name, " output:\n", output) and the user message after it is  *)
(* name, " output:\n", output.                                             *)
(***************************************************************************)
C9_AssistantTurnIsUpdatedBuffer ==
  pc = "ptc_feedback" =>
    LET n == Len(messages)
    IN  /\ messages[n - 1].role = "assistant"
        /\ EndsWith(messages[n - 1].content, UpdatedText(token_buffer, tool_call))
        /\ messages[n].content =
             tool_call.name \o <<" ","o","u","t","p","u","t",":","\n">>
                            \o tool_call.output

(***************************************************************************)
(* C9 amended: after a tool call executed from buffer B, the text appended *)
(* to the assistant turn is B itself (the updated buffer of process_text   *)
(* is not recorded): the open assistant entry is extended by B, or a new   *)
(* entry with content B is created; the entry is completed and the user    *)
(* message right after it is name, " output:\n", output.                   *)
(***************************************************************************)
C9_AssistantTurnIsBuffer ==
  /\ [](pc = "ptc_feedback" =>
          LET n == Len(messages)
          IN  /\ messages[n - 1].role = "assistant"
              /\ messages[n - 1].completed
              /\ EndsWith(messages[n - 1].content, token_buffer)
              /\ messages[n].role = "user"
              /\ messages[n].content =
                   tool_call.name \o <<" ","o","u","t","p","u","t",":","\n">>
                                  \o tool_call.output)
  /\ [][pc = "ptc_append" =>
          LET a == LastAssistant(messages)
              b == LastAssistant(messages')
              open == IF a # 0 /\ ~messages[a].completed
                        THEN messages[a].content ELSE <<>>
          IN  /\ b = Len(messages')
              /\ messages'[b].content = open \o token_buffer]_vars

\* a shell call was executed in an iteration that extends an open turn
C9_Witness ==
  /\ pc = "ptc_feedback"
  /\ tool_call.name = SHELL
  /\ Len(messages[Len(messages) - 1].content) > Len(token_buffer)

(***************************************************************************)
(* C10: when a stream has ended with no tool executed, run returns iff the *)
(* latest assistant content holds the sentinel (compared without regard to *)
(* case); the value is the text after the first occurrence, trimmed, or    *)
(* "Task completed successfully" if nothing is left; without the sentinel  *)
(* the iteration has no result and control is back at the while test.      *)
(***************************************************************************)
\* the sentinel sits at offset p of c, whatever the case of the letters
SentinelAt(c, p) ==
  /\ p + Len(TASK_COMPLETE_TAG) <= Len(c)
  /\ \A k \in 1..Len(TASK_COMPLETE_TAG) : LowerChar(c[p + k]) = TASK_COMPLETE_TAG[k]

\* t is s without its leading and trailing whitespace
IsTrimOf(t, s) ==
  \E i \in 0..Len(s) : \E j \in i..Len(s) :
    /\ t = SubSeq(s, i + 1, j)
    /\ \A k \in 1..i : s[k] \in WhitespaceChars
    /\ \A k \in (j + 1)..Len(s) : s[k] \in WhitespaceChars
    /\ (t # <<>> => (t[1] \notin WhitespaceChars /\ t[Len(t)] \notin WhitespaceChars))

C10_CompletionPredicate ==
  [][pc = "check" =>
       LET a == LastAssistant(messages)
           c == IF a = 0 THEN <<>> ELSE messages[a].content
       IN  IF \E p \in 0..Len(c) : SentinelAt(c, p)
             THEN LET p == CHOOSE q \in 0..Len(c) :
                             /\ SentinelAt(c, q)
                             /\ \A r \in 0..(q - 1) : ~SentinelAt(c, r)
                      rest == SliceFrom(c, p + Len(TASK_COMPLETE_TAG))
                  IN  /\ pc' = "done"
                      /\ outcome' = "returned"
                      /\ IF IsTrimOf(<<>>, rest)
                           THEN result' = TASK_COMPLETE_DEFAULT_RESULT
                           ELSE IsTrimOf(result', rest)
             ELSE /\ pc' = "loop"
                  /\ outcome' = "running"
                  /\ result' = None]_vars

\* run returned the text after a sentinel written in mixed case
C10_Witness ==
  /\ pc = "done"
  /\ outcome = "returned"
  /\ result = <<"a">>

(***************************************************************************)
(* C11  Every output execute_tool returns, whether the runner returned,    *)
(* the name was not registered, or the arguments did not fit the runner,   *)
(* starts with "<<< ", ends with " >>>", and holds at most 1000 characters *)
(* between the two.                                                        *)
(***************************************************************************)
C11_OutputEnvelope ==
  tool_call # NoCall =>
    LET out == tool_call.output
        inner == Len(out) - Len(ENVELOPE_OPEN) - Len(ENVELOPE_CLOSE)
    IN  /\ StartsWith(out, <<"<","<","<"," ">>)
        /\ EndsWith(out, <<" ",">",">",">">>)
        /\ inner >= 0
        /\ inner <= 1000

\* a runner returned more than 1000 characters and the output was cut
C11_Witness ==
  /\ Len(exec_log) = 1
  /\ Len(runner_calls) = 1
  /\ tool_call.name = SHELL
  /\ tool_call.content = <<"x">>
  /\ Len(tool_call.output) = 1008
  /\ tool_call.output[1005] = " "

(***************************************************************************)
(* C12  run never propagates an exception a model runner raised: whether   *)
(* the main model or the feedback critic raised, and whether or not an     *)
(* earlier failure was being handled, run ends by returning.               *)
(***************************************************************************)
C12_RunNeverRaises == outcome # "raised"

(***************************************************************************)
(* C13  One call of process_text executes at most one tool call.  If the   *)
(* buffer holds complete markers whose ids are not in the executed table,  *)
(* the call executes exactly the leftmost of them, adds exactly its id to  *)
(* the table and returns the buffer followed by the output; otherwise it   *)
(* returns (buffer, false, none) and leaves the table as it was.           *)
(***************************************************************************)
\* start offsets of the complete markers of text whose ids are not in table
UnexecutedStarts(text, table) ==
  LET all == FindIter(text)
  IN  { p \in { all[i].start : i \in 1..Len(all) } : ToolId(p) \notin DOMAIN table }

\* the step is a call of process_text by the scanner harness
IsScanProcess == appends' = appends

C13_AtMostOneLeftmost ==
  [][ IsScanProcess =>
        LET starts == UnexecutedStarts(token_buffer, executed_tools)
        IN  IF starts = {}
              THEN /\ tool_call' = NoCall
                   /\ executed_tools' = executed_tools
                   /\ exec_log' = exec_log
                   /\ runner_calls' = runner_calls
                   /\ token_buffer' = token_buffer
              ELSE LET leftmost == CHOOSE p \in starts : \A q \in starts : p <= q
                   IN  /\ tool_call' # NoCall
                       /\ tool_call'.start_pos = leftmost
                       /\ tool_call'.executed
                       /\ DOMAIN executed_tools' = DOMAIN executed_tools \cup {ToolId(leftmost)}
                       /\ \A id \in DOMAIN executed_tools : executed_tools'[id] = executed_tools[id]
                       /\ executed_tools'[ToolId(leftmost)] = tool_call'
                       /\ exec_log' = Append(exec_log, ToolId(leftmost))
                       /\ Len(runner_calls') <= Len(runner_calls) + 1
                       /\ token_buffer' \in {token_buffer,
                                             UpdatedText(token_buffer, tool_call')}
    ]_vars

\* process_text ran on a buffer with two unexecuted markers and took the left
\* one: the right one is still unexecuted
C13_Witness ==
  /\ Len(FindIter(token_buffer)) >= 2
  /\ exec_log = <<ToolId(0)>>
  /\ Cardinality(UnexecutedStarts(token_buffer, executed_tools)) >= 1
  /\ tool_call # NoCall
  /\ tool_call.start_pos = 0

(***************************************************************************)
(* C14  For every sequence of prompt-manager operations,                   *)
(* append_assistant_content extends an entry only if the trailing (last)   *)
(* entry of the log is an assistant entry that is not complete; otherwise, *)
(* also when an incomplete assistant entry is followed by user messages,   *)
(* it appends a new incomplete assistant entry at the end of the log.      *)
(***************************************************************************)
\* the step is a call of append_assistant_content by the harness
IsPMAppend == appends' = appends + 1

C14_ExtendsOnlyTrailingEntry ==
  [][ IsPMAppend =>
        LET n == Len(messages)
        IN  IF messages[n].role = "assistant" /\ ~messages[n].completed
              THEN /\ Len(messages') = n
                   /\ \A i \in 1..(n - 1) : messages'[i] = messages[i]
                   /\ messages'[n].role = "assistant"
                   /\ ~messages'[n].completed
                   /\ Len(messages'[n].content) > Len(messages[n].content)
                   /\ StartsWith(messages'[n].content, messages[n].content)
              ELSE /\ Len(messages') = n + 1
                   /\ \A i \in 1..n : messages'[i] = messages[i]
                   /\ messages'[n + 1].role = "assistant"
                   /\ ~messages'[n + 1].completed
    ]_vars

(***************************************************************************)
(* C15  The payload of a call of a registered tool is splatted as named    *)
(* arguments only when it parses as a JSON object; for every other payload *)
(* (not JSON, or JSON that is not an object: a number, a boolean, a quoted *)
(* string) the runner is called with the payload itself, shell as its      *)
(* command argument and run_python as its code argument.                   *)
(***************************************************************************)
C15_PayloadInterpretation ==
  (tool_call # NoCall /\ tool_call.name \in AVAILABLE_TOOLS) =>
    LET parsed == JsonLoads(tool_call.content)
        param == IF tool_call.name = SHELL THEN COMMAND ELSE CODE
    IN  IF parsed.ok /\ parsed.object
          THEN runner_calls # <<>> =>
                 runner_calls[1] = [name |-> tool_call.name, args |-> parsed.members]
          ELSE runner_calls =
                 << [name |-> tool_call.name, args |-> (param :> tool_call.content)] >>

(***************************************************************************)
(* C16  An opening [name]||| with no closing ||| in the current buffer is  *)
(* never executed; it is executed as soon as a later fragment of the same  *)
(* stream makes the closing delimiter present.  If the stream ends while   *)
(* it is still unclosed, the whole buffer is appended to the assistant     *)
(* entry as plain content, the entry stays incomplete, and no tool-output  *)
(* or feedback message is added.                                           *)
(***************************************************************************)
\* \[(\w+)\]\|\|\| matches at offset p of text
OpeningAt(text, p) ==
  /\ p + 1 <= Len(text)
  /\ text[p + 1] = "["
  /\ LET q == WordRunEnd(text, p + 1)
     IN  /\ q > p + 1
         /\ q < Len(text)
         /\ text[q + 1] = "]"
         /\ OccursAt(text, DELIM, q + 1)

\* offsets of the openings of text that lie behind its last complete marker
\* and have no closing delimiter
UnclosedOpenings(text) ==
  LET all == FindIter(text)
      from == IF all = <<>> THEN 0 ELSE all[Len(all)].end
  IN  { p \in from..Len(text) : OpeningAt(text, p) /\ ~MatchAt(text, p).ok }

C16_UnclosedMarker ==
  [][ /\ \* executed only when complete in the buffer that was scanned
         exec_log' # exec_log =>
           /\ MatchAt(token_buffer', tool_call'.start_pos).ok
           /\ tool_call'.start_pos \notin UnclosedOpenings(token_buffer')
      /\ \* executed by the step that brings the closing delimiter
         \A p \in UnclosedOpenings(token_buffer) :
           MatchAt(token_buffer', p).ok =>
             /\ exec_log' = Append(exec_log, ToolId(p))
             /\ tool_call'.start_pos = p
             /\ pc' = "ptc_append"
      /\ \* the stream ends with the opening unclosed
         (pc = "stream" /\ pc' = "check" /\ UnclosedOpenings(token_buffer) # {}) =>
           /\ messages' # <<>>
           /\ messages'[Len(messages')].role = "assistant"
           /\ ~messages'[Len(messages')].completed
           /\ EndsWith(messages'[Len(messages')].content, token_buffer)
           /\ Len(messages') <= Len(messages) + 1
           /\ \A i \in 1..Len(messages) :
                i < Len(messages') => messages'[i] = messages[i]
           /\ Count(origin', "tool_output") = Count(origin, "tool_output")
           /\ Count(origin', "feedback") = Count(origin, "feedback")
           /\ exec_log' = exec_log
    ]_vars

(***************************************************************************)
(* C17  In every tool cycle the feedback critic is invoked exactly once,   *)
(* after the tool-output user message is in the log, and the feedback user *)
(* message is appended directly after that tool-output message, before any *)
(* assistant content of the next iteration.                                *)
(***************************************************************************)
C17_FeedbackOncePerToolCycle ==
  /\ pc = "ptc_feedback" => origin[Len(origin)] = "tool_output"
  /\ \* the critic is not invoked a second time for a tool cycle
     pc = "err_feedback" => error.src = "main"
  /\ \A i \in ToolOutputIdx : i < Len(origin) => origin[i + 1] = "feedback"

(***************************************************************************)
(* C17 (amended)  In every tool cycle the feedback critic is invoked after *)
(* the tool-output user message is in the log.  If that invocation         *)
(* returns, its response is appended as a user message directly after the  *)
(* tool-output message.  If it raises, an assistant entry holding the      *)
(* error text is appended directly after the tool-output message and the   *)
(* critic is invoked a second time, by handle_error.                       *)
(***************************************************************************)
C17_FeedbackFollowsToolOutput ==
  /\ [](pc \in {"ptc_feedback", "ptc_add_feedback"} =>
          /\ origin[Len(origin)] = "tool_output"
          /\ messages[Len(messages)] =
               Message("user", tool_call.name \o TOOL_OUTPUT_PREFIX \o tool_call.output))
  /\ [][pc = "ptc_feedback" => pc' \in {"ptc_add_feedback", "err_append"}]_vars
  /\ [][pc = "ptc_add_feedback" =>
          /\ messages' = Append(messages, Message("user", feedback))
          /\ origin' = Append(origin, "feedback")]_vars
  /\ [](\A i \in ToolOutputIdx : i < Len(origin) =>
          \/ origin[i + 1] = "feedback"
          \/ /\ origin[i + 1] = "assistant"
             /\ \E e \in FeedbackErrors : messages[i + 1].content = ErrorMsg(e))
  /\ []((pc = "err_feedback" /\ error.src = "feedback") =>
          /\ Len(origin) >= 2
          /\ origin[Len(origin) - 1] = "tool_output"
          /\ origin[Len(origin)] = "assistant")

\* the log holds a tool cycle whose critic raised (error entry, then the
\* feedback of the second invocation) and a later one whose critic returned
C17_Witness ==
  \E i, j \in ToolOutputIdx :
    /\ i < j
    /\ origin[i + 1] = "assistant"
    /\ origin[i + 2] = "feedback"
    /\ j < Len(origin)
    /\ origin[j + 1] = "feedback"
    /\ outcome = "returned"

(***************************************************************************)
(* C18  When the main model runner raises during an iteration, the log     *)
(* changes in this order: "\nError during execution: <message>" is         *)
(* appended to the assistant turn (the open turn is extended, or a new one *)
(* is created), the turn is marked complete, the feedback critic is        *)
(* invoked once and its response is appended as one user message;          *)
(* afterwards no assistant entry is incomplete.                            *)
(***************************************************************************)
C18_ErrorHandlingOrder ==
  [][ error.src = "main" =>
        LET n == Len(messages)
        IN  /\ pc = "err_append" =>
                 /\ pc' = "err_complete"
                 /\ IF messages[n].role = "assistant" /\ ~messages[n].completed
                      THEN messages' =
                             [messages EXCEPT ![n].content = @ \o ErrorMsg(error.text)]
                      ELSE messages' =
                             Append(messages, Message("assistant", ErrorMsg(error.text)))
            /\ pc = "err_complete" =>
                 /\ pc' = "err_feedback"
                 /\ messages' = [messages EXCEPT ![n].completed = TRUE]
                 /\ messages[n].role = "assistant"
            /\ pc = "err_feedback" =>
                 /\ pc' = "err_add_feedback"
                 /\ messages' = messages
            /\ pc = "err_add_feedback" =>
                 /\ messages' = Append(messages, Message("user", feedback))
                 /\ \A i \in 1..Len(messages') :
                      messages'[i].role = "assistant" => messages'[i].completed
    ]_vars

(***************************************************************************)
(* C19  A marker whose name is not a registered tool invokes no runner;    *)
(* its output is "<<< Error: Function <name> not found >>>", it is marked  *)
(* executed, and it is then handled like a successful tool cycle: the      *)
(* assistant entry is completed, the tool-output user message is appended  *)
(* and feedback is requested.  It does not terminate the iteration or the  *)
(* run.                                                                    *)
(***************************************************************************)
NotFoundOutput(name) ==
  <<"<","<","<"," ","E","r","r","o","r",":"," ","F","u","n","c","t","i","o","n"," ">>
    \o name \o <<" ","n","o","t"," ","f","o","u","n","d"," ",">",">",">">>

C19_UnknownToolContinues ==
  [][ /\ (exec_log' # exec_log /\ tool_call'.name \notin AVAILABLE_TOOLS) =>
           /\ runner_calls' = runner_calls
           /\ tool_call'.output = NotFoundOutput(tool_call'.name)
           /\ tool_call'.executed
           /\ tool_call'.id \in DOMAIN executed_tools'
           /\ executed_tools'[tool_call'.id] = tool_call'
           /\ pc' = "ptc_append"
      /\ (tool_call # NoCall /\ tool_call.name \notin AVAILABLE_TOOLS) =>
           /\ pc = "ptc_append" => pc' = "ptc_complete"
           /\ pc = "ptc_complete" =>
                /\ pc' = "ptc_tool_output"
                /\ messages'[Len(messages')].role = "assistant"
                /\ messages'[Len(messages')].completed
           /\ pc = "ptc_tool_output" =>
                /\ pc' = "ptc_feedback"
                /\ messages' =
                     Append(messages,
                            Message("user", tool_call.name \o TOOL_OUTPUT_PREFIX
                                              \o NotFoundOutput(tool_call.name)))
           /\ pc = "ptc_add_feedback" =>
                /\ messages' = Append(messages, Message("user", feedback))
                /\ \* the run goes on
                   outcome' = "running"
                /\ pc' = "loop"
    ]_vars

(***************************************************************************)
(* C20  Whenever the loop has executed max_iterations iterations without a *)
(* result (max_iterations = 0 included), run appends                       *)
(* "\nMaximum iterations reached" to the current assistant entry, creating *)
(* one if none is open, marks that entry complete, and returns the content *)
(* of that entry, which is the last entry of the log.                      *)
(***************************************************************************)
C20_CapNotice ==
  [][ /\ (pc = "loop" /\ iteration >= max_iterations) =>
           /\ pc' = "cap_append"
           /\ messages' = messages
           /\ result = None
      /\ pc = "cap_append" =>
           LET n == Len(messages)
           IN  /\ iteration = max_iterations
               /\ IF messages[n].role = "assistant" /\ ~messages[n].completed
                    THEN messages' =
                           [messages EXCEPT ![n].content = @ \o MAX_ITERATIONS_MESSAGE]
                    ELSE messages' =
                           Append(messages, Message("assistant", MAX_ITERATIONS_MESSAGE))
               /\ pc' = "cap_complete"
      /\ pc = "cap_complete" =>
           LET n == Len(messages)
           IN  /\ messages[n].role = "assistant"
               /\ messages' = [messages EXCEPT ![n].completed = TRUE]
               /\ EndsWith(messages'[n].content, MAX_ITERATIONS_MESSAGE)
               /\ result' = messages'[n].content
               /\ outcome' = "returned"
               /\ pc' = "done"
    ]_vars

\* run returned at the cap after an iteration of plain text: the notice
\* extended the open assistant entry, which is the last entry of the log
C20_Witness ==
  /\ pc = "done"
  /\ outcome = "returned"
  /\ max_iterations >= 1
  /\ iteration = max_iterations
  /\ result = messages[Len(messages)].content
  /\ messages[Len(messages)].role = "assistant"
  /\ messages[Len(messages)].completed
  /\ EndsWith(result, MAX_ITERATIONS_MESSAGE)
  /\ Len(result) > Len(MAX_ITERATIONS_MESSAGE)

(***************************************************************************)
(* C21  The executed-call table only grows: no id is removed and no stored *)
(* call is overwritten.  Every stored call has executed = true and an      *)
(* output that is not empty.  A call becomes executed exactly once, in the *)
(* step that sets its output and stores it in the table.                   *)
(***************************************************************************)
C21_ExecutedTableInvariant ==
  /\ [](\A id \in DOMAIN executed_tools :
          /\ executed_tools[id].id = id
          /\ executed_tools[id].executed
          /\ executed_tools[id].output # None
          /\ executed_tools[id].output # <<>>)
  /\ [][\A id \in DOMAIN executed_tools :
          /\ id \in DOMAIN executed_tools'
          /\ executed_tools'[id] = executed_tools[id]]_vars
  /\ [][exec_log' # exec_log =>
          /\ exec_log' = Append(exec_log, tool_call'.id)
          /\ tool_call'.id \notin DOMAIN executed_tools
          /\ \A k \in 1..Len(exec_log) : exec_log[k] # tool_call'.id
          /\ tool_call'.executed
          /\ tool_call'.output # None
          /\ DOMAIN executed_tools' = DOMAIN executed_tools \cup {tool_call'.id}
          /\ executed_tools'[tool_call'.id] = tool_call']_vars
  /\ [][executed_tools' # executed_tools => exec_log' # exec_log]_vars

\* a second run met a marker at the offset of an executed one, left the stored
\* call alone and executed a marker further right
C21_Witness ==
  /\ runs = 2
  /\ Len(exec_log) = 2
  /\ Cardinality(DOMAIN executed_tools) = 2
  /\ ToolId(0) \in DOMAIN executed_tools
  /\ tool_call # NoCall
  /\ tool_call.start_pos > 0
  /\ MatchAt(token_buffer, 0).ok

(***************************************************************************)
(* C22  After any sequence of prompt-manager operations the first entry is *)
(* the system message of construction, unchanged; no entry is removed or   *)
(* reordered; the content of a system entry, of a user entry and of a      *)
(* completed assistant entry never changes; an assistant entry never goes  *)
(* from completed back to incomplete, and complete_current_assistant is    *)
(* idempotent.                                                             *)
(***************************************************************************)
C22_LogAppendOnly ==
  /\ [](messages[1] = Message("system", SYSTEM_PROMPT))
  /\ [](complete_current_assistant(complete_current_assistant(messages))
          = complete_current_assistant(messages))
  /\ [][/\ Len(messages') >= Len(messages)
        /\ \A i \in 1..Len(messages) :
             /\ messages'[i].role = messages[i].role
             /\ StartsWith(messages'[i].content, messages[i].content)
             /\ messages[i].completed => messages'[i].completed
             /\ (messages[i].role \in {"system", "user"} \/ messages[i].completed)
                  => messages'[i].content = messages[i].content]_vars

\* the log holds a completed assistant entry, a user message after it, and a
\* later assistant entry that was extended
C22_Witness ==
  \E i, j, k \in 1..Len(messages) :
    /\ i < j /\ j < k
    /\ messages[i].role = "assistant" /\ messages[i].completed
    /\ messages[j].role = "user"
    /\ messages[k].role = "assistant"
    /\ Len(messages[k].content) >= 2

(***************************************************************************)
(* C23  When the stream of the main model raises after it delivered some   *)
(* fragments in an iteration, those fragments (the agent's buffer) are not *)
(* recorded in the conversation log: the log is as it was when the stream  *)
(* started, and only the error continuation text is appended to the        *)
(* assistant turn.                                                         *)
(***************************************************************************)
C23_BufferDroppedOnError ==
  /\ [][(pc = "stream" /\ pc' \in {"stream", "err_append"}) =>
          messages' = messages]_vars
  /\ [][(pc = "err_append" /\ error.src = "main") =>
          LET n == Len(messages)
          IN  \/ /\ messages[n].role = "assistant" /\ ~messages[n].completed
                 /\ messages' =
                      [messages EXCEPT ![n].content = @ \o ErrorMsg(error.text)]
              \/ /\ ~(messages[n].role = "assistant" /\ ~messages[n].completed)
                 /\ messages' =
                      Append(messages, Message("assistant", ErrorMsg(error.text)))]_vars

\* the stream raised with fragments in the buffer and the error text alone
\* was appended to the assistant turn
C23_Witness ==
  /\ pc = "err_complete"
  /\ error.src = "main"
  /\ token_buffer # <<>>
  /\ fragments >= 2
  /\ EndsWith(messages[Len(messages)].content, ErrorMsg(error.text))
  /\ ~EndsWith(messages[Len(messages)].content, token_buffer \o ErrorMsg(error.text))

====
